---- MODULE Spec2Model ----
(***************************************************************************)
(* A state-machine model of mkdocs/commands/serve.py: the serve() command  *)
(* that creates a scratch site directory, resolves the configuration,      *)
(* runs the plugin lifecycle events, performs the initial build, builds    *)
(* and runs the live-reload server and tears everything down.              *)
(*                                                                         *)
(* One action per statement (or per iteration of a loop) of serve(); the   *)
(* rebuild callback `builder` invoked by the server is a second, reactive  *)
(* process that runs while the blocking server.serve() call is active.     *)
(***************************************************************************)
EXTENDS Naturals, Integers, Sequences, FiniteSets

\* ---------------------------------------------------------------- bounds
\* longest caller-supplied `watch` list
MaxWatch == 1
\* longest `watch` list of the loaded configuration
MaxCfgWatch == 1
\* number of directories in config['theme'].dirs
NumThemeDirs == 1
\* number of change-triggered invocations of the rebuild callback per run
MaxRebuilds == 2
\* number of different contents an error page can have
MaxContent == 1

\* ---------------------------------------------------------------- values
None == "none"

\* paths are tagged pairs, so that every path of the run is distinct
DocsDir == <<"docs_dir", 0>>
ConfigFilePath == <<"config_file_path", 0>>
NoPath == <<"", 0>>
ThemeDirs == [i \in 1..NumThemeDirs |-> <<"theme_dir", i>>]
CliWatch(n) == [i \in 1..n |-> <<"cli_watch", i>>]
CfgWatch(n) == [i \in 1..n |-> <<"cfg_watch", i>>]

\* the values of the `livereload` parameter
LiveReloadModes == {"livereload", "dirty", "no-livereload"}

\* config['dev_addr'], formatted as host:port
DevAddr == "127.0.0.1:8000"

\* URLs are strings, modelled as sequences of these tokens
Schemes == {"http:", "https:"}
PathEnd == {"?", "#"}

\* config['site_url']: unset (None or ''), or an absolute URL, which is
\* what the URL option of load_config lets through
UnsetUrl == <<>>
UrlPaths == { <<>>, <<"/">>, <<"/", "docs", "/">> }
AbsUrl(p) == <<"http:", "//", "example.com">> \o p
SiteUrls == {UnsetUrl} \cup {AbsUrl(p) : p \in UrlPaths}

\* config['watch']: None, or a list; `alias` says that the list object is
\* the caller's `watch` list itself (line 67 stores the reference)
WatchNone == [isNone |-> TRUE, alias |-> FALSE, items |-> <<>>]
WatchList(s) == [isNone |-> FALSE, alias |-> FALSE, items |-> s]

\* what load_config can return for this run
LoadedConfigs ==
    { [ok |-> TRUE, watch |-> w, site_url |-> u] :
        w \in {WatchNone} \cup {WatchList(CfgWatch(n)) : n \in 0..MaxCfgWatch},
        u \in SiteUrls }
NoConfig == [ok |-> FALSE, watch |-> WatchNone, site_url |-> UnsetUrl]

\* no server constructed yet
NoMount == <<"none">>

\* line 89: the status codes error_handler serves a page for
HandledCodes == {404, 500}
\* the status codes the server may ask error_handler about
RequestCodes == {403, 404, 500, 502}
\* the file '{code}.html' of site_dir: missing, or its bytes
NoFile == <<"no file", 0>>
FileStates == {NoFile} \cup {<<"bytes", n>> : n \in 0..MaxContent}
\* the result of a call that falls off the end of error_handler
NoneResult == <<"None", 0>>
NoPages == [c \in RequestCodes |-> NoFile]
NoResponse == [code |-> 0, seen |-> NoFile, body |-> NoneResult]

\* exception classes.  jinja2's TemplateNotFound derives from both
\* TemplateError and OSError (IOError); TemplateSyntaxError only from
\* TemplateError; BuildError stands for any exception that is neither.
IsTemplateError(e) == e \in {"TemplateNotFound", "TemplateSyntaxError"}
IsOSError(e) == e \in {"TemplateNotFound", "OSError"}
\* what a step inside the guarded phase may raise
StepErrors == {"TemplateNotFound", "TemplateSyntaxError", "OSError", "BuildError"}
\* what a plugin event or a teardown action may raise
PluginErrors == {"OSError", "BuildError"}

VARIABLES
    pc,          \* the statement serve() is at
    exc,         \* the exception in flight in serve() (None: none)
    outcome,     \* "running", "returned", or the exception serve() raised
    cause,       \* how the guarded phase (lines 79-118) ended first
    dirExists,   \* whether site_dir exists on disk
    server,      \* the handle bound to the local `server`
    handlerOn,   \* the handle error_handler was installed on
    log,         \* the calls serve() has made, in order
    idx,         \* position of the running for-loop
    livereload,  \* parameter
    watch_theme, \* parameter
    watch,       \* parameter: the caller's list object (mutable)
    loaded,      \* what load_config returns in this run
    config,      \* the local `config` (cached from line 76)
    firstBuild,  \* "none", "ok" or "failed": the initial build
    nLoad,       \* number of calls of load_config (get_config)
    rbStarted,   \* rebuild callbacks the server has invoked
    rbBuilding,  \* rebuild callbacks inside build() right now
    rbLoadFailed,\* rebuild callbacks that ended in get_config raising
    nBuildCached,\* Builder invocations given the cached startup config
    nBuildFresh, \* Builder invocations given a freshly loaded config
    buildArgs,   \* the arguments of every Builder invocation so far
    watchArg,    \* parameter: the elements the caller passed in `watch`
    inFlightAtExit, \* rebuild callbacks inside build() when serve() ended
    serverMount, \* the mount_path the server was constructed with
    pages,       \* the files '{code}.html' of site_dir: code -> file state
    response     \* the last call of error_handler: code, file seen, result

vars == <<pc, exc, outcome, cause, dirExists, server, handlerOn, log, idx,
          livereload, watch_theme, watch, loaded, config, firstBuild, nLoad,
          rbStarted, rbBuilding, rbLoadFailed, nBuildCached, nBuildFresh,
          buildArgs, watchArg, inFlightAtExit, serverMount, pages, response>>

params == <<livereload, watch_theme, loaded, watchArg>>
\* the workspace files and the requests: serve() itself never touches them
files == <<pages, response>>
others == <<inFlightAtExit, serverMount, files>>
rebuildVars == <<rbStarted, rbBuilding, rbLoadFailed, nBuildFresh>>

\* ---------------------------------------------------------------- helpers
Entry(op, h, arg) == [op |-> op, h |-> h, arg |-> arg]
Logged(op) == \E i \in 1..Len(log) : log[i].op = op
Count(op) == Cardinality({i \in 1..Len(log) : log[i].op = op})

\* line 57
live_server == livereload \in {"dirty", "livereload"}
\* a variant of dirty that is set in every live mode
dirty_WhenLive == live_server

\* line 58
dirty == livereload = "dirty"

\* urllib.parse.urlsplit: the rest of a URL after its scheme
AfterScheme(u) == IF u # <<>> /\ Head(u) \in Schemes THEN Tail(u) ELSE u

\* urlsplit: the rest after the netloc, which runs up to the next /, ? or #
RECURSIVE SkipNetloc(_)
SkipNetloc(r) ==
    IF r = <<>> \/ Head(r) \in PathEnd \cup {"/"} THEN r
    ELSE SkipNetloc(Tail(r))

AfterNetloc(r) ==
    IF r # <<>> /\ Head(r) = "//" THEN SkipNetloc(Tail(r)) ELSE r

\* urlsplit: the path runs up to the query or the fragment
RECURSIVE UpToPathEnd(_)
UpToPathEnd(r) ==
    IF r = <<>> \/ Head(r) \in PathEnd THEN <<>>
    ELSE <<Head(r)>> \o UpToPathEnd(Tail(r))

\* urlsplit(u).path
UrlPath(u) == UpToPathEnd(AfterNetloc(AfterScheme(u)))

\* lines 43-44: urlsplit(config['site_url'] or '/').path
mount_path(cfg) ==
    UrlPath(IF cfg.site_url = <<>> THEN <<"/">> ELSE cfg.site_url)

\* the list config['watch'] denotes
WatchItems(cfg) == IF cfg.watch.alias THEN watch ELSE cfg.watch.items

\* a variant of MergedWatch that leaves the caller's list out
MergedWatch_ConfigOnly(cfg) ==
    IF cfg.watch.isNone
    THEN [isNone |-> FALSE, alias |-> FALSE, items |-> <<>>]
    ELSE cfg.watch

\* lines 66-69: config['watch'] after the merge with the caller's list
MergedWatch(cfg) ==
    IF cfg.watch.isNone
    THEN [isNone |-> FALSE, alias |-> TRUE, items |-> <<>>]
    ELSE IF cfg.watch.alias
         THEN cfg.watch
         ELSE [cfg.watch EXCEPT !.items = cfg.watch.items \o watch]

\* a variant of WatchAfterMerge that merges the other way round, the loaded
\* entries into the caller's list
WatchAfterMerge_Extends(cfg) ==
    IF cfg.watch.isNone \/ cfg.watch.alias THEN watch
    ELSE watch \o cfg.watch.items

\* lines 66-69: the caller's list after the merge (extend of the list by
\* itself when config['watch'] is that very list)
WatchAfterMerge(cfg) ==
    IF ~cfg.watch.isNone /\ cfg.watch.alias THEN watch \o watch ELSE watch

\* a variant of RewrittenUrl that serves every site at the root
RewrittenUrl_Root(cfg) == <<"http:", "//", DevAddr, "/">>

\* line 72: 'http://{}{}'.format(config['dev_addr'], mount_path(config))
RewrittenUrl(cfg) == <<"http:", "//", DevAddr>> \o mount_path(cfg)

\* lines 65-72: the config handed to build()
BuilderConfig(cfg) ==
    [cfg EXCEPT !.watch = MergedWatch(cfg), !.site_url = RewrittenUrl(cfg)]

\* line 74: the arguments of build()
BuildCall(cfg, src) ==
    [src |-> src, site_url |-> BuilderConfig(cfg).site_url,
     watch |-> IF BuilderConfig(cfg).watch.alias THEN watch
               ELSE BuilderConfig(cfg).watch.items,
     live_server |-> live_server, dirty |-> dirty]

\* ---------------------------------------------------------------- Init
Init ==
    /\ pc = "mkdtemp"
    /\ exc = None
    /\ outcome = "running"
    /\ cause = None
    /\ dirExists = FALSE
    /\ server = None
    /\ handlerOn = None
    /\ log = <<>>
    /\ idx = 1
    /\ livereload \in LiveReloadModes
    /\ watch_theme \in BOOLEAN
    /\ watchArg \in {CliWatch(n) : n \in 0..MaxWatch}
    /\ watch = watchArg
    /\ loaded \in LoadedConfigs
    /\ config = NoConfig
    /\ firstBuild = "none"
    /\ nLoad = 0
    /\ rbStarted = 0
    /\ rbBuilding = 0
    /\ rbLoadFailed = 0
    /\ nBuildCached = 0
    /\ nBuildFresh = 0
    /\ buildArgs = {}
    /\ inFlightAtExit = 0
    /\ serverMount = NoMount
    /\ pages = NoPages
    /\ response = NoResponse

\* ------------------------------------------------- exits of a statement
\* an exception leaving serve() where no handler encloses the statement:
\* lines 41-77, and the finally block of lines 125-128
Propagate(e) ==
    /\ outcome' = e
    /\ pc' = "done"
    /\ exc' = e

\* a variant of RaiseInTry that shuts an existing server down first
RaiseInTry_ShutsDown(e) ==
    /\ exc' = e
    /\ pc' = IF server # None THEN "server_shutdown" ELSE "except"
    /\ cause' = IF cause = None THEN e ELSE cause

\* an exception raised in the body of the outer try (lines 80-110): control
\* goes to the except clauses of lines 119-124
RaiseInTry(e) ==
    /\ exc' = e
    /\ pc' = "except"
    /\ cause' = IF cause = None THEN e ELSE cause


\* lines 119-124: the exception that leaves the except clauses
OuterExcept(e) ==
    IF IsTemplateError(e) THEN e
    ELSE IF IsOSError(e) THEN "Abort"
    ELSE e

\* a variant of ServerAfterServeEvent that drops the event's return value
ServerAfterServeEvent_Dropped(ret) == server

\* line 107: the handle bound to `server` after the 'serve' event returned ret
ServerAfterServeEvent(ret) == ret

\* a variant of AfterErrorHandler that enters the block of line 97 in every
\* mode
AfterErrorHandler_AlwaysWatch == "watch_docs"

\* lines 97-111: where control goes after line 95
AfterErrorHandler == IF live_server THEN "watch_docs" ELSE "serve"

\* a variant of LiveSequence that registers the extra watch paths before
\* it runs the 'serve' event
LiveSequence_WatchFirst(p) ==
    CASE p = "watch_theme" -> "watch_extra"
      [] p = "watch_extra" -> "serve_event"
      [] p = "serve_event" -> "serve"

\* lines 102-113: the statement that follows the theme loop (102-104), the
\* 'serve' event (107) and the extra-watch loop (109-110)
LiveSequence(p) ==
    CASE p = "watch_theme" -> "serve_event"
      [] p = "serve_event" -> "watch_extra"
      [] p = "watch_extra" -> "serve"

\* ---------------------------------------------------------------- serve()
\* line 41: site_dir = tempfile.mkdtemp(prefix='mkdocs_')
Mkdtemp ==
    /\ pc = "mkdtemp"
    /\ \/ /\ dirExists' = TRUE
          /\ log' = Append(log, Entry("mkdtemp", None, NoPath))
          /\ pc' = "get_config"
          /\ UNCHANGED <<exc, outcome>>
       \/ /\ Propagate("OSError")
          /\ UNCHANGED <<dirExists, log>>
    /\ UNCHANGED <<cause, server, handlerOn, idx, params, others, watch, config,
                   firstBuild, nLoad, rebuildVars, nBuildCached, buildArgs>>

\* line 76: config = get_config()
GetConfig ==
    /\ pc = "get_config"
    /\ nLoad' = nLoad + 1
    /\ log' = Append(log, Entry("load_config", None, NoPath))
    /\ \/ /\ config' = loaded
          /\ pc' = "startup"
          /\ UNCHANGED <<exc, outcome>>
       \/ /\ Propagate("ConfigError")
          /\ UNCHANGED config
    /\ UNCHANGED <<cause, dirExists, server, handlerOn, idx, params, others, watch,
                   firstBuild, rebuildVars, nBuildCached, buildArgs>>

\* line 77: config['plugins'].run_event('startup', command='serve', dirty=dirty)
StartupEvent ==
    /\ pc = "startup"
    /\ log' = Append(log, Entry("startup", None, NoPath))
    /\ \/ /\ pc' = "build"
          /\ UNCHANGED <<exc, outcome>>
       \/ \E e \in PluginErrors : Propagate(e)
    /\ UNCHANGED <<cause, dirExists, server, handlerOn, idx, params, others, watch,
                   config, firstBuild, nLoad, rebuildVars, nBuildCached,
                   buildArgs>>

\* a variant of InitialBuildRaises in which builder swallows the exception
InitialBuildRaises_Swallowed(e) ==
    /\ firstBuild' = "failed"
    /\ pc' = "construct"
    /\ UNCHANGED <<exc, cause>>

\* line 81 when build() raises e
InitialBuildRaises(e) ==
    /\ firstBuild' = "failed"
    /\ RaiseInTry(e)

\* line 81: builder(config), the initial build with the cached config
InitialBuild ==
    /\ pc = "build"
    /\ config' = BuilderConfig(config)
    /\ watch' = WatchAfterMerge(config)
    /\ nBuildCached' = nBuildCached + 1
    /\ buildArgs' = buildArgs \cup {BuildCall(config, "cached")}
    /\ log' = Append(log, Entry("build", None, NoPath))
    /\ \/ /\ firstBuild' = "ok"
          /\ pc' = "construct"
          /\ UNCHANGED <<exc, cause>>
       \/ \E e \in StepErrors : InitialBuildRaises(e)
    /\ UNCHANGED <<outcome, dirExists, server, handlerOn, idx, params, others, nLoad,
                   rebuildVars>>

\* lines 83-86: server = LiveReloadServer(builder=builder, ...)
Construct ==
    /\ pc = "construct"
    /\ log' = Append(log, Entry("construct", "orig", NoPath))
    /\ \/ /\ server' = "orig"
          /\ serverMount' = mount_path(config)
          /\ pc' = "error_handler"
          /\ UNCHANGED <<exc, cause>>
       \/ /\ \E e \in StepErrors : RaiseInTry(e)
          /\ UNCHANGED <<server, serverMount>>
    /\ UNCHANGED <<outcome, dirExists, handlerOn, idx, params, inFlightAtExit,
                   files, watch, config, firstBuild, nLoad, rebuildVars,
                   nBuildCached, buildArgs>>

\* lines 88-95: server.error_handler = error_handler
InstallErrorHandler ==
    /\ pc = "error_handler"
    /\ handlerOn' = server
    /\ pc' = AfterErrorHandler
    /\ UNCHANGED <<exc, outcome, cause, dirExists, server, log, idx, params, others,
                   watch, config, firstBuild, nLoad, rebuildVars, nBuildCached,
                   buildArgs>>

\* server.watch(path) on the current handle, then on to statement `next`
WatchCall(path, next, i) ==
    /\ log' = Append(log, Entry("watch", server, path))
    /\ \/ /\ pc' = next
          /\ idx' = i
          /\ UNCHANGED <<exc, cause>>
       \/ /\ \E e \in StepErrors : RaiseInTry(e)
          /\ UNCHANGED idx
    /\ UNCHANGED <<outcome, dirExists, server, handlerOn, params, others, watch,
                   config, firstBuild, nLoad, rebuildVars, nBuildCached,
                   buildArgs>>

\* line 99: server.watch(config['docs_dir'])
WatchDocs ==
    /\ pc = "watch_docs"
    /\ WatchCall(DocsDir, "watch_config", 1)

\* line 100: server.watch(config['config_file_path'])
WatchConfig ==
    /\ pc = "watch_config"
    /\ WatchCall(ConfigFilePath, "watch_theme", 1)

\* lines 102-104: one iteration of `for d in config['theme'].dirs`
WatchThemeDir ==
    /\ pc = "watch_theme"
    /\ watch_theme
    /\ idx <= Len(ThemeDirs)
    /\ WatchCall(ThemeDirs[idx], "watch_theme", idx + 1)

\* lines 102-104: watch_theme is off, or the loop is exhausted
WatchThemeEnd ==
    /\ pc = "watch_theme"
    /\ ~watch_theme \/ idx > Len(ThemeDirs)
    /\ pc' = LiveSequence("watch_theme")
    /\ idx' = 1
    /\ UNCHANGED <<exc, outcome, cause, dirExists, server, handlerOn, log,
                   params, others, watch, config, firstBuild, nLoad, rebuildVars,
                   nBuildCached, buildArgs>>

\* line 107: server = config['plugins'].run_event('serve', server, ...)
\* the plugins return the handle they were given or one of their own
ServeEvent ==
    /\ pc = "serve_event"
    /\ \/ \E ret \in {"orig", "repl"} :
            /\ log' = Append(log, Entry("serve_event", ret, NoPath))
            /\ server' = ServerAfterServeEvent(ret)
            /\ pc' = LiveSequence("serve_event")
            /\ UNCHANGED <<exc, cause>>
       \/ /\ log' = Append(log, Entry("serve_event", None, NoPath))
          /\ \E e \in PluginErrors : RaiseInTry(e)
          /\ UNCHANGED server
    /\ UNCHANGED <<outcome, dirExists, handlerOn, idx, params, others, watch, config,
                   firstBuild, nLoad, rebuildVars, nBuildCached, buildArgs>>

\* lines 109-110: one iteration of `for item in config['watch']`
WatchExtra ==
    /\ pc = "watch_extra"
    /\ idx <= Len(WatchItems(config))
    /\ WatchCall(WatchItems(config)[idx], "watch_extra", idx + 1)

\* lines 109-110: the loop is exhausted
WatchExtraEnd ==
    /\ pc = "watch_extra"
    /\ idx > Len(WatchItems(config))
    /\ pc' = LiveSequence("watch_extra")
    /\ idx' = 1
    /\ UNCHANGED <<exc, outcome, cause, dirExists, server, handlerOn, log,
                   params, others, watch, config, firstBuild, nLoad, rebuildVars,
                   nBuildCached, buildArgs>>

\* line 113: server.serve() is entered and blocks
ServeCall ==
    /\ pc = "serve"
    /\ log' = Append(log, Entry("serve", server, NoPath))
    /\ pc' = "serving"
    /\ UNCHANGED <<exc, outcome, cause, dirExists, server, handlerOn, idx,
                   params, others, watch, config, firstBuild, nLoad, rebuildVars,
                   nBuildCached, buildArgs>>

\* line 113: server.serve() returns
ServeReturns ==
    /\ pc = "serving"
    /\ cause' = "normal"
    /\ pc' = "server_shutdown"
    /\ inFlightAtExit' = rbBuilding
    /\ UNCHANGED <<exc, outcome, dirExists, server, handlerOn, log, idx,
                   params, serverMount, files, watch, config, firstBuild, nLoad, rebuildVars,
                   nBuildCached, buildArgs>>

\* lines 114-116: KeyboardInterrupt in server.serve() is caught and logged
ServeInterrupted ==
    /\ pc = "serving"
    /\ cause' = "cancelled"
    /\ pc' = "server_shutdown"
    /\ inFlightAtExit' = rbBuilding
    /\ UNCHANGED <<exc, outcome, dirExists, server, handlerOn, log, idx,
                   params, serverMount, files, watch, config, firstBuild, nLoad, rebuildVars,
                   nBuildCached, buildArgs>>

\* line 113: server.serve() raises anything else; the finally of line 117
\* runs with the exception in flight
ServeRaises ==
    /\ pc = "serving"
    /\ \E e \in StepErrors :
         /\ exc' = e
         /\ cause' = e
    /\ pc' = "server_shutdown"
    /\ inFlightAtExit' = rbBuilding
    /\ UNCHANGED <<outcome, dirExists, server, handlerOn, log, idx, params, serverMount, files,
                   watch, config, firstBuild, nLoad, rebuildVars, nBuildCached,
                   buildArgs>>

\* a variant of AfterServerShutdown that leaves the inner try straight for
\* the removal of site_dir
AfterServerShutdown_SkipEvent(e) ==
    IF e = None THEN "rmtree" ELSE "except"

\* where control goes when line 118 returned with e in flight: with none,
\* past the except clauses into the finally of line 125; otherwise into the
\* except clauses of lines 119-124
AfterServerShutdown(e) ==
    IF e = None THEN "shutdown_event" ELSE "except"

\* lines 117-118: finally: server.shutdown(); an exception it raises
\* replaces the one in flight
ServerShutdown ==
    /\ pc = "server_shutdown"
    /\ log' = Append(log, Entry("server_shutdown", server, NoPath))
    /\ \/ /\ pc' = AfterServerShutdown(exc)
          /\ UNCHANGED exc
       \/ /\ \E e \in PluginErrors : exc' = e
          /\ pc' = "except"
    /\ UNCHANGED <<outcome, cause, dirExists, server, handlerOn, idx, params, others,
                   watch, config, firstBuild, nLoad, rebuildVars, nBuildCached,
                   buildArgs>>

\* lines 119-124: the except clauses of the outer try
Except ==
    /\ pc = "except"
    /\ exc' = OuterExcept(exc)
    /\ pc' = "shutdown_event"
    /\ UNCHANGED <<outcome, cause, dirExists, server, handlerOn, log, idx,
                   params, others, watch, config, firstBuild, nLoad, rebuildVars,
                   nBuildCached, buildArgs>>

\* lines 125-126: finally: config['plugins'].run_event('shutdown'); an
\* exception it raises leaves serve() at once, skipping lines 127-128
ShutdownEvent ==
    /\ pc = "shutdown_event"
    /\ log' = Append(log, Entry("shutdown", None, NoPath))
    /\ \/ /\ pc' = "rmtree"
          /\ UNCHANGED <<exc, outcome>>
       \/ \E e \in PluginErrors : Propagate(e)
    /\ UNCHANGED <<cause, dirExists, server, handlerOn, idx, params, others, watch,
                   config, firstBuild, nLoad, rebuildVars, nBuildCached,
                   buildArgs>>

\* lines 127-128: if isdir(site_dir): shutil.rmtree(site_dir); then serve()
\* returns, or the exception in flight leaves it
Rmtree ==
    /\ pc = "rmtree"
    /\ \/ /\ dirExists
          /\ log' = Append(log, Entry("rmtree", None, NoPath))
          /\ \/ /\ dirExists' = FALSE
                /\ outcome' = IF exc = None THEN "returned" ELSE exc
                /\ UNCHANGED exc
             \/ /\ exc' = "OSError"
                /\ outcome' = "OSError"
                /\ UNCHANGED dirExists
       \/ /\ ~dirExists
          /\ outcome' = IF exc = None THEN "returned" ELSE exc
          /\ UNCHANGED <<log, dirExists, exc>>
    /\ pc' = "done"
    /\ UNCHANGED <<cause, server, handlerOn, idx, params, others, watch, config,
                   firstBuild, nLoad, rebuildVars, nBuildCached, buildArgs>>


\* the statements of the finally blocks and except clauses, lines 117-128
TeardownPcs == {"server_shutdown", "except", "shutdown_event", "rmtree"}

\* site_dir is removed from outside while serve() is tearing down, which is
\* the case the isdir test of line 127 is there for
ExternalRemove ==
    /\ pc \in TeardownPcs
    /\ dirExists
    /\ dirExists' = FALSE
    /\ UNCHANGED <<pc, exc, outcome, cause, server, handlerOn, log, idx,
                   params, others, watch, config, firstBuild, nLoad,
                   rebuildVars, nBuildCached, buildArgs>>

\* ------------------------------------------------- the rebuild callback
\* The server was constructed with builder=builder (line 85) and is given
\* no config: while its serve() call is active it invokes builder() for a
\* detected change, on a background thread, whether or not an earlier
\* invocation is still running.
ServerInvokesBuilder ==
    /\ pc = "serving"
    /\ rbStarted < MaxRebuilds

\* a variant of BuilderResolvesConfig in which the callback closes over the
\* config of line 76
BuilderResolvesConfig_Cached == FALSE

\* lines 62-63: `if config is None: config = get_config()` for a call
\* builder(); TRUE says that the callback resolves the config itself
BuilderResolvesConfig == TRUE

\* lines 60-74: builder() is entered for a detected change, obtains its
\* config, merges the watch lists, rewrites site_url and enters build()
RebuildStart ==
    /\ ServerInvokesBuilder
    /\ rbStarted' = rbStarted + 1
    /\ IF BuilderResolvesConfig
       THEN /\ nLoad' = nLoad + 1
            /\ \/ /\ rbBuilding' = rbBuilding + 1
                  /\ nBuildFresh' = nBuildFresh + 1
                  /\ buildArgs' = buildArgs \cup {BuildCall(loaded, "fresh")}
                  /\ watch' = WatchAfterMerge(loaded)
                  /\ UNCHANGED <<rbLoadFailed, config, nBuildCached>>
               \/ /\ rbLoadFailed' = rbLoadFailed + 1
                  /\ UNCHANGED <<rbBuilding, nBuildFresh, buildArgs, watch,
                                 config, nBuildCached>>
       ELSE /\ rbBuilding' = rbBuilding + 1
            /\ nBuildCached' = nBuildCached + 1
            /\ buildArgs' = buildArgs \cup {BuildCall(config, "cached")}
            /\ watch' = WatchAfterMerge(config)
            /\ config' = BuilderConfig(config)
            /\ UNCHANGED <<nLoad, rbLoadFailed, nBuildFresh>>
    /\ UNCHANGED <<pc, exc, outcome, cause, dirExists, server, handlerOn, log,
                   idx, params, others, firstBuild>>

\* build() writes the rendered site into site_dir, creating the directory
\* when it is missing
WorkspaceAfterBuild == TRUE

\* line 74: build() of a rebuild writes its output and returns, or raises,
\* on the server's thread
RebuildFinish ==
    /\ rbBuilding > 0
    /\ rbBuilding' = rbBuilding - 1
    /\ \/ dirExists' = WorkspaceAfterBuild
       \/ UNCHANGED dirExists
    /\ UNCHANGED <<pc, exc, outcome, cause, server, handlerOn, log, idx,
                   params, others, watch, config, firstBuild, nLoad,
                   rbStarted, rbLoadFailed, nBuildCached, nBuildFresh,
                   buildArgs>>

\* ---------------------------------------------------------------- Spec
Next ==
    \/ Mkdtemp
    \/ GetConfig
    \/ StartupEvent
    \/ InitialBuild
    \/ Construct
    \/ InstallErrorHandler
    \/ WatchDocs
    \/ WatchConfig
    \/ WatchThemeDir
    \/ WatchThemeEnd
    \/ ServeEvent
    \/ WatchExtra
    \/ WatchExtraEnd
    \/ ServeCall
    \/ ServeReturns
    \/ ServeInterrupted
    \/ ServeRaises
    \/ ServerShutdown
    \/ Except
    \/ ShutdownEvent
    \/ Rmtree
    \/ ExternalRemove
    \/ RebuildStart
    \/ RebuildFinish

Spec == Init /\ [][Next]_vars

\* ------------------------------------------------- error_handler
\* a variant of error_handler without the test of line 89
error_handler_AnyCode(code) ==
    IF pages[code] # NoFile THEN pages[code] ELSE NoneResult

\* lines 88-93: the page for a status code, read from site_dir at the call
error_handler(code) ==
    IF code \in HandledCodes
    THEN IF pages[code] # NoFile THEN pages[code] ELSE NoneResult
    ELSE NoneResult

\* The state of a run that is inside server.serve() (no live reload, default
\* arguments, site_url unset), whatever the initial build left in site_dir.
InitErrorHandler ==
    /\ pc = "serving"
    /\ exc = None
    /\ outcome = "running"
    /\ cause = None
    /\ dirExists = TRUE
    /\ server = "orig"
    /\ handlerOn = "orig"
    /\ log = << Entry("mkdtemp", None, NoPath),
                Entry("load_config", None, NoPath),
                Entry("startup", None, NoPath),
                Entry("build", None, NoPath),
                Entry("construct", "orig", NoPath),
                Entry("serve", "orig", NoPath) >>
    /\ idx = 1
    /\ livereload = "no-livereload"
    /\ watch_theme = FALSE
    /\ watchArg = <<>>
    /\ watch = <<>>
    /\ loaded = [ok |-> TRUE, watch |-> WatchNone, site_url |-> UnsetUrl]
    /\ config = BuilderConfig(loaded)
    /\ firstBuild = "ok"
    /\ nLoad = 1
    /\ rbStarted = 0
    /\ rbBuilding = 0
    /\ rbLoadFailed = 0
    /\ nBuildCached = 1
    /\ nBuildFresh = 0
    /\ buildArgs = {BuildCall(loaded, "cached")}
    /\ inFlightAtExit = 0
    /\ serverMount = <<"/">>
    /\ pages \in [RequestCodes -> FileStates]
    /\ response = NoResponse

\* line 95: the server calls the installed error_handler for a status code
ErrorRequest ==
    /\ pc = "serving"
    /\ handlerOn # None
    /\ \E code \in RequestCodes :
         response' = [code |-> code, seen |-> pages[code],
                      body |-> error_handler(code)]
    /\ UNCHANGED <<pc, exc, outcome, cause, dirExists, server, handlerOn, log,
                   idx, params, watch, config, firstBuild, nLoad, rebuildVars,
                   nBuildCached, buildArgs, inFlightAtExit, serverMount,
                   pages>>

\* a build (or anything else) writes, rewrites or removes a '{code}.html'
WorkspaceChanges ==
    /\ dirExists
    /\ \E code \in RequestCodes, f \in FileStates :
         /\ pages[code] # f
         /\ pages' = [pages EXCEPT ![code] = f]
    /\ UNCHANGED <<pc, exc, outcome, cause, dirExists, server, handlerOn, log,
                   idx, params, watch, config, firstBuild, nLoad, rebuildVars,
                   nBuildCached, buildArgs, inFlightAtExit, serverMount,
                   response>>

NextErrorHandler ==
    \/ ErrorRequest
    \/ WorkspaceChanges

SpecErrorHandler == InitErrorHandler /\ [][NextErrorHandler]_vars



\* ---------------------------------------------------------------- claims
Idx == 1..Len(log)
Before(i, op) == \E j \in 1..(i - 1) : log[j].op = op
WatchedBefore(i, path) ==
    \E j \in 1..(i - 1) : log[j].op = "watch" /\ log[j].arg = path
IsExtraPath(path) == path[1] \in {"cli_watch", "cfg_watch"}
HandleOps == {"watch", "serve", "server_shutdown"}

\* line 76 returned a config
ConfigResolved == config.ok
\* line 77 returned: the guarded phase was entered
StartupSucceeded == Logged("build") \/ pc = "build"
\* serve() has returned or raised
Exited == pc = "done"
\* the four exit paths of the guarded phase: the serve loop returned, it was
\* cancelled, the initial build raised a TemplateError, a step raised OSError
FourExitPaths ==
    \/ cause \in {"normal", "cancelled"}
    \/ firstBuild = "failed" /\ IsTemplateError(cause)
    \/ IsOSError(cause)

\* C1: when config resolution and the startup event succeeded, the workspace
\* directory exists until teardown, and no longer exists once serve() has
\* returned or raised on one of the four exit paths.
C1_WorkspaceLifetime ==
    StartupSucceeded =>
        /\ pc \notin TeardownPcs \cup {"done"} => dirExists
        /\ Exited /\ FourExitPaths => ~dirExists

\* C2: when config resolution succeeded, the 'shutdown' event has been
\* dispatched exactly once by the time serve() returns or raises.
C2_ShutdownExactlyOnce ==
    /\ Count("shutdown") <= 1
    /\ Exited /\ ConfigResolved => Count("shutdown") = 1

\* C3: the workspace directory is created once and removed once: whenever
\* serve() exits after creating it, the directory no longer exists.
C3_WorkspaceRemovedOnEveryExit ==
    /\ Count("mkdtemp") <= 1
    /\ Count("rmtree") <= 1
    /\ Exited /\ Logged("mkdtemp") => ~dirExists

\* C4: when the 'serve' event returned a handle other than the constructed
\* one, every later watch registration, the serve() call and the
\* server.shutdown() call are made on the returned handle.
C4_OpsOnReplacement ==
    \A k \in Idx :
        log[k].op = "serve_event" /\ log[k].h \notin {None, "orig"} =>
            \A i \in Idx :
                i > k /\ log[i].op \in HandleOps => log[i].h = log[k].h

C4_Witness ==
    /\ Exited
    /\ \E k \in Idx :
        /\ log[k].op = "serve_event" /\ log[k].h = "repl"
        /\ \E i \in Idx : i > k /\ log[i].op = "watch" /\ log[i].h = "repl"
        /\ \E i \in Idx : i > k /\ log[i].op = "serve" /\ log[i].h = "repl"
        /\ \E i \in Idx :
              i > k /\ log[i].op = "server_shutdown" /\ log[i].h = "repl"

\* C5: 'startup' precedes the first build; the 'serve' event follows the
\* construction of the server and the watches on the docs directory, the
\* config file and (with watch_theme) every theme directory, and precedes
\* every extra watch path; 'shutdown' follows all of these.
C5_EventOrder ==
    \A i \in Idx :
        /\ log[i].op = "build" => Before(i, "startup")
        /\ log[i].op = "serve_event" =>
              /\ live_server
              /\ Before(i, "construct")
              /\ WatchedBefore(i, DocsDir)
              /\ WatchedBefore(i, ConfigFilePath)
              /\ watch_theme =>
                    \A d \in 1..Len(ThemeDirs) : WatchedBefore(i, ThemeDirs[d])
              /\ \A j \in 1..(i - 1) :
                    log[j].op = "watch" => ~IsExtraPath(log[j].arg)
        /\ log[i].op = "watch" /\ IsExtraPath(log[i].arg) =>
              Before(i, "serve_event")
        /\ log[i].op = "shutdown" =>
              /\ Before(i, "startup")
              /\ \A j \in Idx :
                    log[j].op \in {"startup", "build", "construct", "watch",
                                   "serve_event"} => j < i

C5_Witness ==
    /\ Exited
    /\ watch_theme
    /\ \E i, j, k \in Idx :
        /\ i < j /\ j < k
        /\ log[i].op = "watch" /\ log[i].arg = ThemeDirs[1]
        /\ log[j].op = "serve_event"
        /\ log[k].op = "watch" /\ IsExtraPath(log[k].arg)
        /\ \E m \in Idx : m > k /\ log[m].op = "shutdown"

\* C6: nothing is done with a server unless the initial build returned:
\* when it raised, no server is constructed, no watch registered, the
\* 'serve' event is not dispatched and serve() is not called.
C6_NoServerWithoutBuild ==
    firstBuild # "ok" =>
        /\ server = None
        /\ handlerOn = None
        /\ \A i \in Idx :
              log[i].op \notin {"construct", "watch", "serve_event", "serve",
                                "server_shutdown"}

C6_Witness ==
    /\ Exited
    /\ firstBuild = "failed"
    /\ Logged("shutdown")

\* C7: a TemplateError raised in the guarded phase leaves serve() as that
\* same TemplateError, after the 'shutdown' event and the removal of the
\* workspace.
C7_TemplateErrorPropagates ==
    Exited /\ IsTemplateError(cause) =>
        /\ outcome = cause
        /\ Logged("shutdown")
        /\ ~dirExists

\* C8: after a KeyboardInterrupt in the serve loop, server.shutdown(), the
\* 'shutdown' event and the removal of the workspace run in that order and
\* serve() returns normally.
C8_CancellationRecovered ==
    Exited /\ cause = "cancelled" =>
        /\ outcome = "returned"
        /\ Logged("rmtree") \/ ~dirExists
        /\ \E i, j \in Idx :
              /\ i < j
              /\ log[i].op = "server_shutdown"
              /\ log[j].op = "shutdown"
              /\ \A k \in Idx : log[k].op = "rmtree" => j < k

\* C9 as stated: every rebuild makes one Builder invocation with the config
\* cached at startup, and load_config is not called again.
C9_RebuildUsesCachedConfig ==
    /\ nLoad <= 1
    /\ nBuildFresh = 0
    /\ nBuildCached = Count("build") + rbStarted

\* C9 as amended: every rebuild calls load_config once and, when that
\* returns, makes exactly one Builder invocation, on the freshly resolved
\* config; the cached config is used by the initial build only.
C9_RebuildResolvesConfig ==
    /\ nLoad = Count("load_config") + rbStarted
    /\ nBuildFresh = rbStarted - rbLoadFailed
    /\ nBuildCached = Count("build")
    /\ rbBuilding <= nBuildFresh

C9_Witness ==
    /\ rbStarted >= 2
    /\ nBuildFresh >= 1
    /\ rbLoadFailed >= 1
    /\ nLoad >= 3

\* C10: at most one invocation of the rebuild callback is between its start
\* and its end in any state.
C10_NoConcurrentBuilds ==
    rbBuilding <= 1

\* C11: when the serve loop was cancelled with a rebuild in flight, the
\* workspace directory does not exist once serve() has returned and every
\* in-flight rebuild has finished.
C11_NoWorkspaceAfterCancel ==
    /\ outcome = "returned"
    /\ cause = "cancelled"
    /\ inFlightAtExit > 0
    /\ rbBuilding = 0
    => ~dirExists

\* the path component of the configured base URL, "/" when it is unset
ConfiguredPath ==
    IF loaded.site_url = UnsetUrl THEN <<"/">>
    ELSE CHOOSE p \in UrlPaths : loaded.site_url = AbsUrl(p)

\* C12: every Builder invocation is handed the base URL http://host:port
\* followed by the path component of the configured base URL, and the server
\* is constructed with that same path component as its mount path.
C12_BaseUrlAndMount ==
    /\ \A b \in buildArgs :
          b.site_url = <<"http:", "//", DevAddr>> \o ConfiguredPath
    /\ serverMount # NoMount => serverMount = ConfiguredPath

C12_Witness ==
    /\ loaded.site_url = AbsUrl(<<"/", "docs", "/">>)
    /\ serverMount = <<"/", "docs", "/">>
    /\ \E b \in buildArgs :
          /\ b.src = "fresh"
          /\ b.site_url = <<"http:", "//", DevAddr, "/", "docs", "/">>
    /\ \E b \in buildArgs : b.src = "cached"

\* C13: error_handler answers from the files as they are at the call: for
\* 404 and 500 it returns the bytes of '{code}.html' exactly when that file
\* exists then, and None otherwise; for any other code it returns None.
C13_ErrorHandlerAtRequestTime ==
    response # NoResponse =>
        IF response.code \in {404, 500} /\ response.seen # NoFile
        THEN response.body = response.seen
        ELSE response.body = NoneResult

C13_Witness ==
    /\ response.code = 404
    /\ response.body = <<"bytes", 1>>
    /\ pages[404] = NoFile
    /\ pages[403] # NoFile

\* what serve() reports when nothing fails after the guarded phase ended
\* with `c`: a normal return, the TemplateError, Abort for an OSError
OriginalOutcome(c) ==
    IF c \in {"normal", "cancelled"} THEN "returned"
    ELSE IF IsTemplateError(c) THEN c
    ELSE IF IsOSError(c) THEN "Abort"
    ELSE c

\* C14: an error raised by server.shutdown(), by the 'shutdown' event or by
\* the removal of the workspace is suppressed: the 'shutdown' event and the
\* removal still run, and serve() reports the original exit cause.
C14_TeardownErrorsSuppressed ==
    Exited /\ StartupSucceeded =>
        /\ outcome = OriginalOutcome(cause)
        /\ Logged("shutdown")
        /\ Logged("rmtree") \/ ~dirExists

C16_BuildFlags ==
    /\ \A b \in buildArgs :
          /\ b.live_server = (livereload \in {"livereload", "dirty"})
          /\ b.dirty = (livereload = "dirty")
    /\ \A b1, b2 \in buildArgs :
          b1.live_server = b2.live_server /\ b1.dirty = b2.dirty

C16_Witness ==
    /\ livereload = "livereload"
    /\ \E b \in buildArgs : b.src = "cached" /\ b.live_server /\ ~b.dirty
    /\ \E b \in buildArgs : b.src = "fresh" /\ b.live_server /\ ~b.dirty

\* the statements of the block of lines 97-110
WatchingPcs ==
    {"watch_docs", "watch_config", "watch_theme", "serve_event", "watch_extra"}

\* C17: with live reload disabled no path is ever watched and the 'serve'
\* event is never dispatched, yet the server is constructed, gets its error
\* handler and its serve() is entered next; with live reload enabled every
\* watch call and the 'serve' event come before serve() and none after it.
C17_WatchingOnlyWhenLive ==
    /\ livereload = "no-livereload" =>
          /\ ~Logged("watch")
          /\ ~Logged("serve_event")
          /\ pc \notin WatchingPcs
          /\ handlerOn # None /\ ~Logged("serve") /\ exc = None =>
                pc = "serve"
    /\ Logged("serve") => Logged("construct") /\ handlerOn # None
    /\ \A i, j \in Idx :
          log[i].op = "serve" /\ log[j].op \in {"watch", "serve_event"} =>
              j < i
    /\ livereload # "no-livereload" /\ Logged("serve") =>
          /\ Logged("serve_event")
          /\ WatchedBefore(Len(log) + 1, DocsDir)
          /\ WatchedBefore(Len(log) + 1, ConfigFilePath)

C17_Witness ==
    /\ livereload = "no-livereload"
    /\ Logged("construct")
    /\ handlerOn = "orig"
    /\ pc = "serving"
    /\ Len(log) > 0 /\ log[Len(log)].op = "serve"

IsExtraWatch(e) == e.op = "watch" /\ IsExtraPath(e.arg)
\* the paths registered by the loop of lines 109-110, in order
ExtraWatched ==
    [i \in 1..Len(SelectSeq(log, IsExtraWatch)) |->
        SelectSeq(log, IsExtraWatch)[i].arg]

\* C18: in live mode, once serve() is entered, the extra paths registered
\* after the 'serve' event are the caller's paths when the loaded watch
\* value is unset, and otherwise the loaded entries followed by the caller's
\* paths, each caller's path exactly once.
C18_ExtraWatchPaths ==
    livereload # "no-livereload" /\ Logged("serve") =>
        /\ ExtraWatched =
              (IF loaded.watch.isNone THEN <<>> ELSE loaded.watch.items)
                  \o watchArg
        /\ \A k \in 1..Len(watchArg) :
              Cardinality({i \in 1..Len(ExtraWatched) :
                              ExtraWatched[i] = watchArg[k]}) = 1

C18_Witness ==
    /\ livereload # "no-livereload"
    /\ Logged("serve")
    /\ ~loaded.watch.isNone
    /\ ExtraWatched = <<<<"cfg_watch", 1>>, <<"cli_watch", 1>>>>

\* C19: server.shutdown() is called exactly once in a run that entered
\* server.serve(), on the handle serve() was called on, however serve()
\* ended; it is never called in a run that did not enter serve(), also when
\* the server existed and a watch call or the 'serve' event raised.
C19_ServerShutdownIffServed ==
    /\ Count("serve") <= 1
    /\ Count("server_shutdown") <= Count("serve")
    /\ Exited => Count("server_shutdown") = Count("serve")
    /\ \A i, j \in Idx :
          log[i].op = "serve" /\ log[j].op = "server_shutdown" =>
              i < j /\ log[i].h = log[j].h
    /\ ~Logged("serve") /\ pc \in TeardownPcs => pc # "server_shutdown"

C19_Witness ==
    /\ Exited
    /\ Logged("construct")
    /\ Logged("serve_event")
    /\ ~Logged("serve")
    /\ ~Logged("server_shutdown")
    /\ cause \in StepErrors

\* C20: serve() never changes the caller's `watch` list: after the initial
\* build and any number of rebuilds, with the loaded watch value unset or
\* set, the list holds exactly what the caller passed, so the shared default
\* list is still empty for the next run.
C20_CallerWatchUnchanged ==
    /\ watch = watchArg
    /\ watchArg = <<>> => watch = <<>>

C20_Witness ==
    /\ Exited
    /\ loaded.watch.isNone
    /\ config.watch.alias
    /\ watchArg = CliWatch(1)
    /\ nBuildFresh >= 2
    /\ watch = CliWatch(1)

====
